---- MODULE Spec2Model ----
(***************************************************************************)
(* Model of the analysis scripts of jaseci_external_tools:                 *)
(*   - ttg.py            walkers_to_multidigraph_list (tree -> multigraph) *)
(*   - cache_plot.py     load_cache_stats / aggregate_hit_rates (the same  *)
(*                       two functions stand in cache_plot_bar.py)         *)
(*   - timer.py          load_timer_json / compute_avg_times               *)
(*   - littlex1/util.py  append_to_json_list                               *)
(* Each script is an independent batch job, so each has its own            *)
(* specification over its own variables; the variables of the other        *)
(* scripts stay at their initial values.                                   *)
(***************************************************************************)
EXTENDS Integers, Sequences, FiniteSets, TLC

VARIABLES
    \* ---- ttg.py
    data,       \* the argument of walkers_to_multidigraph_list: a list of roots
    rootIdx,    \* position of `for root in data`
    G,          \* the MultiDiGraph of the root being processed
    graphs,     \* the list `graphs`
    stack,      \* the active calls of process(), innermost last
    pc,         \* "loop" | "walk" | "returned" | "raised"
    returned,   \* what the caller receives: <<>> until the call returns
    \* ---- littlex1/util.py
    dir,        \* the directory: path -> inode number, NoInode when absent
    inode,      \* inode number -> the file's text (a sequence of characters)
    apc,        \* per process: position inside append_to_json_list
    item,       \* per process: the argument `item`
    adata,      \* per process: the local `data`
    handle,     \* per process: the inode of the open temporary file
    calls,      \* number of calls started so far
    before,     \* per process: what the target held when the call started
    log,        \* the items of the calls that ran to their end, in order
    \* ---- cache_plot.py, cache_plot_bar.py, timer.py
    script,     \* which script runs: "cache_plot" | "timer"
    records,    \* the list json.load returned: the records of the input file
    df,         \* the table the load function returned
    grouped,    \* the table the aggregation function returned
    gpc         \* "start" | "loaded" | "done" | "raised"

ttgVars == <<data, rootIdx, G, graphs, stack, pc, returned>>

appVars == <<dir, inode, apc, item, adata, handle, calls, before, log>>

aggVars == <<script, records, df, grouped, gpc>>

vars == <<ttgVars, appVars, aggVars>>

\* What the steps of one script leave alone: the state of the other scripts.
notTTG == <<appVars, aggVars>>
notApp == <<ttgVars, aggVars>>
notAgg == <<ttgVars, appVars>>

(***************************************************************************)
(* ttg.py                                                                  *)
(***************************************************************************)

\* Largest number of tree nodes in one input list.
MaxNodes == 4

\* The ids the external system may record; 0 is a legal id.
Ids == {0, 1}

\* The "node" object of a tree record: with its id, or lacking it.
NodeObjs == {[id |-> i] : i \in Ids} \cup {[label |-> "walker"]}

\* Python's None for parent_id, and an id passed as parent_id.
None == <<>>
Some(x) == <<x>>

\* Every tree record of k nodes, given for each j < k the lists of tree
\* records holding j nodes in all (lists[j + 1]). A leaf is written with an
\* empty "children" list; the leaf of id 1 is also written with no
\* "children" key at all.
TreesOf(lists, k) ==
    { [node |-> o, children |-> kids] : o \in NodeObjs, kids \in lists[k] }
        \cup (IF k = 1 THEN {[node |-> [id |-> 1]]} ELSE {})

\* <<F0, ..., Fn-1>> extended by Fn.
Extend(lists, n) ==
    Append(lists,
           UNION { { <<t>> \o rest : t \in TreesOf(lists, k),
                                     rest \in lists[n - k + 1] } : k \in 1..n })

RECURSIVE ForestTable(_)
\* <<F0, ..., Fn>>: Fj is the set of the lists of tree records that hold j
\* nodes in all.
ForestTable(n) ==
    IF n = 0 THEN <<{<<>>}>> ELSE Extend(ForestTable(n - 1), n)

\* The argument lists tried: every list of roots of at most n nodes.
Inputs(n) == UNION { ForestTable(n)[j] : j \in 1..(n + 1) }

\* nx.MultiDiGraph(): nodes is a set, edges are (u, v, key) triples.
EmptyGraph == [nodes |-> {}, edges |-> {}]

\* MultiDiGraph.add_node: adding a node already present changes nothing.
AddNode(g, n) == [g EXCEPT !.nodes = @ \cup {n}]

\* MultiDiGraph.new_edge_key: the number of edges u->v, raised until unused.
RECURSIVE FreeKey(_, _, _, _)
FreeKey(g, u, v, k) ==
    IF <<u, v, k>> \in g.edges THEN FreeKey(g, u, v, k + 1) ELSE k

NewEdgeKey(g, u, v) ==
    FreeKey(g, u, v, Cardinality({e \in g.edges : e[1] = u /\ e[2] = v}))

\* MultiDiGraph.add_edge(u, v): both ends become nodes, the edge gets a new key.
AddEdge(g, u, v) ==
    [nodes |-> g.nodes \cup {u, v},
     edges |-> g.edges \cup {<<u, v, NewEdgeKey(g, u, v)>>}]

\* node_dict.get("children", [])
Children(node_dict) ==
    IF "children" \in DOMAIN node_dict THEN node_dict.children ELSE <<>>

\* node_dict["node"]["id"] raises KeyError when the key is absent.
HasId(node_dict) == "id" \in DOMAIN node_dict.node

\* Faulty variant, `if parent_id:`: the id 0 counts as no parent.
HasParentTruthy(parent_id) == parent_id # None /\ parent_id[1] # 0

\* `if parent_id is not None`
HasParent(parent_id) == parent_id # None

TTGStart ==
    /\ data \in Inputs(MaxNodes)
    /\ rootIdx = 1
    /\ G = EmptyGraph
    /\ graphs = <<>>
    /\ stack = <<>>
    /\ pc = "loop"
    /\ returned = <<>>

Top == stack[Len(stack)]

Frame(node_dict, parent_id) ==
    [node_dict |-> node_dict, parent_id |-> parent_id, entered |-> FALSE, child |-> 1]

\* Faulty variant: G is created once, outside the loop, and shared by the roots.
StartRootShared ==
    /\ pc = "loop"
    /\ rootIdx <= Len(data)
    /\ stack' = <<Frame(data[rootIdx], None)>>
    /\ pc' = "walk"
    /\ UNCHANGED <<data, rootIdx, G, graphs, returned>>
    /\ UNCHANGED notTTG

\* for root in data: G = nx.MultiDiGraph(); process(root, parent_id=None)
StartRoot ==
    /\ pc = "loop"
    /\ rootIdx <= Len(data)
    /\ G' = EmptyGraph
    /\ stack' = <<Frame(data[rootIdx], None)>>
    /\ pc' = "walk"
    /\ UNCHANGED <<data, rootIdx, graphs, returned>>
    /\ UNCHANGED notTTG

\* Faulty variant: a node without an id is skipped instead of raising.
ProcessEnterSkip ==
    /\ pc = "walk"
    /\ stack # <<>>
    /\ ~Top.entered
    /\ IF ~HasId(Top.node_dict)
       THEN /\ stack' = SubSeq(stack, 1, Len(stack) - 1)
            /\ UNCHANGED <<G, pc>>
       ELSE LET node_id == Top.node_dict.node.id
                g1 == AddNode(G, node_id)
            IN /\ G' = IF HasParent(Top.parent_id)
                       THEN AddEdge(g1, Top.parent_id[1], node_id)
                       ELSE g1
               /\ stack' = [stack EXCEPT ![Len(stack)].entered = TRUE]
               /\ pc' = pc
    /\ UNCHANGED <<data, rootIdx, graphs, returned>>
    /\ UNCHANGED notTTG

\* The head of process(): read the id (KeyError when absent: the exception
\* unwinds every active call and leaves walkers_to_multidigraph_list), add
\* the node, add the edge from the parent.
ProcessEnter ==
    /\ pc = "walk"
    /\ stack # <<>>
    /\ ~Top.entered
    /\ IF ~HasId(Top.node_dict)
       THEN /\ pc' = "raised"
            /\ stack' = <<>>
            /\ G' = G
       ELSE LET node_id == Top.node_dict.node.id
                g1 == AddNode(G, node_id)
            IN /\ G' = IF HasParent(Top.parent_id)
                       THEN AddEdge(g1, Top.parent_id[1], node_id)
                       ELSE g1
               /\ stack' = [stack EXCEPT ![Len(stack)].entered = TRUE]
               /\ pc' = pc
    /\ UNCHANGED <<data, rootIdx, graphs, returned>>
    /\ UNCHANGED notTTG

\* for child in node_dict.get("children", []): process(child, parent_id=node_id)
ProcessChild ==
    /\ pc = "walk"
    /\ stack # <<>>
    /\ Top.entered
    /\ Top.child <= Len(Children(Top.node_dict))
    /\ stack' = Append([stack EXCEPT ![Len(stack)].child = @ + 1],
                       Frame(Children(Top.node_dict)[Top.child],
                             Some(Top.node_dict.node.id)))
    /\ UNCHANGED <<data, rootIdx, G, graphs, pc, returned>>
    /\ UNCHANGED notTTG

\* process() returns once its children are done.
ProcessReturn ==
    /\ pc = "walk"
    /\ stack # <<>>
    /\ Top.entered
    /\ Top.child > Len(Children(Top.node_dict))
    /\ stack' = SubSeq(stack, 1, Len(stack) - 1)
    /\ UNCHANGED <<data, rootIdx, G, graphs, pc, returned>>
    /\ UNCHANGED notTTG

\* graphs.append(G), then the next root.
FinishRoot ==
    /\ pc = "walk"
    /\ stack = <<>>
    /\ graphs' = Append(graphs, G)
    /\ rootIdx' = rootIdx + 1
    /\ pc' = "loop"
    /\ UNCHANGED <<data, G, stack, returned>>
    /\ UNCHANGED notTTG

\* return graphs
ReturnGraphs ==
    /\ pc = "loop"
    /\ rootIdx > Len(data)
    /\ returned' = graphs
    /\ pc' = "returned"
    /\ UNCHANGED <<data, rootIdx, G, graphs, stack>>
    /\ UNCHANGED notTTG

TTGNext ==
    \/ StartRoot
    \/ ProcessEnter
    \/ ProcessChild
    \/ ProcessReturn
    \/ FinishRoot
    \/ ReturnGraphs

(***************************************************************************)
(* littlex1/util.py: append_to_json_list                                   *)
(***************************************************************************)

\* Largest number of calls made one after the other.
MaxCalls == 3

\* The processes that may call append_to_json_list on the same path.
Procs == {1, 2}

\* The values appended: JSON numbers of one and two digits, and a negative.
Items == {7, 12, -3}

\* The argument `path`.
TargetPath == "stats.json"

\* Faulty variant: the new text is written to the target itself.
TmpPathSame(path) == path

\* path.with_suffix(path.suffix + ".tmp")
TmpPath(path) == path \o ".tmp"

Paths == {TargetPath, TmpPath(TargetPath)}

NoInode == 0
InodeIds == 1..(Cardinality(Procs) + 2)

\* ---- the text json.dump writes and json.load reads

DigitChars == <<"0", "1", "2", "3", "4", "5", "6", "7", "8", "9">>

IsDigit(c) == \E d \in 1..Len(DigitChars) : DigitChars[d] = c

DigitVal(c) == (CHOOSE d \in 1..Len(DigitChars) : DigitChars[d] = c) - 1

IsWs(c) == c \in {" ", "\n"}

RECURSIVE NatText(_)
\* The decimal digits of a natural number.
NatText(n) ==
    IF n < Len(DigitChars) THEN <<DigitChars[n + 1]>>
    ELSE Append(NatText(n \div Len(DigitChars)), DigitChars[(n % Len(DigitChars)) + 1])

\* A JSON number as json.dump writes it.
IntText(n) == IF n < 0 THEN <<"-">> \o NatText(0 - n) ELSE NatText(n)

RECURSIVE JsonItems(_)
\* The items of a non-empty list under indent=2: one per line, comma-separated.
JsonItems(list) ==
    <<"\n", " ", " ">> \o IntText(Head(list))
        \o (IF Len(list) = 1 THEN <<"\n">> ELSE <<",">> \o JsonItems(Tail(list)))

\* json.dump(data, f, indent=2) of a list.
JsonDump(list) ==
    IF list = <<>> THEN <<"[", "]">> ELSE <<"[">> \o JsonItems(list) \o <<"]">>

RECURSIVE SkipWs(_, _)
SkipWs(t, i) == IF i <= Len(t) /\ IsWs(t[i]) THEN SkipWs(t, i + 1) ELSE i

RECURSIVE DigitsEnd(_, _)
DigitsEnd(t, i) == IF i <= Len(t) /\ IsDigit(t[i]) THEN DigitsEnd(t, i + 1) ELSE i

RECURSIVE DigitsVal(_, _, _, _)
DigitsVal(t, i, j, acc) ==
    IF i >= j THEN acc
    ELSE DigitsVal(t, i + 1, j, acc * Len(DigitChars) + DigitVal(t[i]))

\* A JSON number at position i: an optional "-", then "0" or digits that do
\* not start with "0".
ScanInt(t, i) ==
    LET neg == i <= Len(t) /\ t[i] = "-"
        s   == IF neg THEN i + 1 ELSE i
        e   == DigitsEnd(t, s)
    IN IF e = s \/ (t[s] = "0" /\ e > s + 1)
       THEN [ok |-> FALSE, next |-> i, val |-> 0]
       ELSE [ok |-> TRUE, next |-> e,
             val |-> IF neg THEN 0 - DigitsVal(t, s, e, 0) ELSE DigitsVal(t, s, e, 0)]

JsonError == [kind |-> "error", val |-> <<>>]
JsonOther == [kind |-> "other", val |-> <<>>]
JsonList(l) == [kind |-> "list", val |-> l]

RECURSIVE ScanItems(_, _, _)
\* The items of a list from position i on, up to the closing bracket, after
\* which only white space may follow.
ScanItems(t, i, acc) ==
    LET r == ScanInt(t, i)
        j == SkipWs(t, r.next)
    IN IF ~r.ok \/ j > Len(t) THEN JsonError
       ELSE IF t[j] = "," THEN ScanItems(t, SkipWs(t, j + 1), Append(acc, r.val))
       ELSE IF t[j] = "]" /\ SkipWs(t, j + 1) > Len(t) THEN JsonList(Append(acc, r.val))
       ELSE JsonError

\* json.load(f): a list of numbers, a bare number (valid JSON, not a list),
\* or JSONDecodeError.
JsonLoad(t) ==
    LET i == SkipWs(t, 1)
    IN IF i > Len(t) THEN JsonError
       ELSE IF t[i] = "["
            THEN LET j == SkipWs(t, i + 1)
                 IN IF j <= Len(t) /\ t[j] = "]"
                    THEN (IF SkipWs(t, j + 1) > Len(t) THEN JsonList(<<>>) ELSE JsonError)
                    ELSE ScanItems(t, j, <<>>)
            ELSE LET r == ScanInt(t, i)
                 IN IF r.ok /\ SkipWs(t, r.next) > Len(t) THEN JsonOther ELSE JsonError

\* ---- the file system

\* path.exists()
Exists(path) == dir[path] # NoInode

\* The text of the file at a path that exists.
Content(path) == inode[dir[path]]

\* Inodes that a directory entry or an open handle refers to.
LiveInodes(d, h) == {d[q] : q \in Paths} \cup {h[p] : p \in Procs}

\* Text written at offset 0 of a file holding `old`: bytes past its end stay.
Overlay(old, new) == new \o SubSeq(old, Len(new) + 1, Len(old))

\* Path.replace(src, dst): dst now names src's file and src is gone; renaming
\* a file onto itself changes nothing.
Replace(d, src, dst) ==
    IF src = dst THEN d ELSE [d EXCEPT ![dst] = d[src], ![src] = NoInode]

\* Files nothing refers to any more are freed.
Collect(ino, d, h) ==
    [i \in InodeIds |-> IF i \in LiveInodes(d, h) THEN ino[i] ELSE <<>>]

\* Lines 9-16: the list in the file; [] when there is no file or when the
\* file does not parse (JSONDecodeError).
ReadData(path) ==
    IF Exists(path)
    THEN LET r == JsonLoad(Content(path))
         IN IF r.kind = "error" THEN JsonList(<<>>) ELSE r
    ELSE JsonList(<<>>)

\* Faulty variant: data.insert(0, item).
AppendItemFront(list, x) == <<x>> \o list

\* data.append(item)
AppendItem(list, x) == Append(list, x)

\* What the target may hold before the first call: nothing, a bare number
\* (valid JSON, not a list) or a text that does not parse.
InitialTexts == { <<"7">>, <<"[", "\n">> }

AppStart ==
    /\ \/ /\ dir = [q \in Paths |-> NoInode]
          /\ inode = [i \in InodeIds |-> <<>>]
       \/ \E t \in InitialTexts :
             /\ dir = [q \in Paths |-> IF q = TargetPath THEN 1 ELSE NoInode]
             /\ inode = [i \in InodeIds |-> IF i = 1 THEN t ELSE <<>>]
    /\ apc = [p \in Procs |-> "idle"]
    /\ item = [p \in Procs |-> 0]
    /\ adata = [p \in Procs |-> <<>>]
    /\ handle = [p \in Procs |-> NoInode]
    /\ calls = 0
    /\ before = [p \in Procs |-> <<>>]
    /\ log = <<>>

\* What `before` records: the target's text, or the marker of no file.
Absent == <<"absent">>
Snapshot == IF Exists(TargetPath) THEN Content(TargetPath) ELSE Absent

Running(p) == apc[p] \in {"read", "open", "dump", "rename"}

\* A call append_to_json_list(path, x) begins in process p.
Call(p, x) ==
    /\ ~Running(p)
    /\ calls < MaxCalls
    /\ calls' = calls + 1
    /\ apc' = [apc EXCEPT ![p] = "read"]
    /\ item' = [item EXCEPT ![p] = x]
    /\ adata' = [adata EXCEPT ![p] = <<>>]
    /\ before' = [before EXCEPT ![p] = Snapshot]
    /\ UNCHANGED <<dir, inode, handle, log>>
    /\ UNCHANGED notApp

\* Lines 9-21: read the list, refuse what is not a list, append the item.
ReadList(p) ==
    /\ apc[p] = "read"
    /\ LET r == ReadData(TargetPath)
       IN IF r.kind # "list"
          THEN /\ apc' = [apc EXCEPT ![p] = "raised"]
               /\ adata' = adata
          ELSE /\ adata' = [adata EXCEPT ![p] = AppendItem(r.val, item[p])]
               /\ apc' = [apc EXCEPT ![p] = "open"]
    /\ UNCHANGED <<dir, inode, item, handle, calls, before, log>>
    /\ UNCHANGED notApp

\* Lines 24-25: tmp_path.open("w") creates the file or truncates it.
OpenTmp(p) ==
    /\ apc[p] = "open"
    /\ LET tmp == TmpPath(TargetPath)
       IN IF Exists(tmp)
          THEN /\ inode' = [inode EXCEPT ![dir[tmp]] = <<>>]
               /\ handle' = [handle EXCEPT ![p] = dir[tmp]]
               /\ dir' = dir
          ELSE LET new == CHOOSE i \in InodeIds : i \notin LiveInodes(dir, handle)
               IN /\ dir' = [dir EXCEPT ![tmp] = new]
                  /\ inode' = [inode EXCEPT ![new] = <<>>]
                  /\ handle' = [handle EXCEPT ![p] = new]
    /\ apc' = [apc EXCEPT ![p] = "dump"]
    /\ UNCHANGED <<item, adata, calls, before, log>>
    /\ UNCHANGED notApp

\* Line 26 and the end of the with block: the text goes to the open file and
\* the file is closed.
DumpClose(p) ==
    /\ apc[p] = "dump"
    /\ LET h == [handle EXCEPT ![p] = NoInode]
           w == [inode EXCEPT ![handle[p]] = Overlay(@, JsonDump(adata[p]))]
       IN /\ handle' = h
          /\ inode' = Collect(w, dir, h)
    /\ apc' = [apc EXCEPT ![p] = "rename"]
    /\ UNCHANGED <<dir, item, adata, calls, before, log>>
    /\ UNCHANGED notApp

\* Variant that reads the target again at the rename and writes the merged
\* list, as a call protected against other writers would.
RenameMerge(p) ==
    /\ apc[p] = "rename"
    /\ LET tmp == TmpPath(TargetPath)
       IN IF ~Exists(tmp)
          THEN /\ apc' = [apc EXCEPT ![p] = "raised"]
               /\ UNCHANGED <<dir, inode, log>>
          ELSE LET w == [inode EXCEPT ![dir[tmp]] =
                           JsonDump(AppendItem(ReadData(TargetPath).val, item[p]))]
                   d == Replace(dir, tmp, TargetPath)
               IN /\ dir' = d
                  /\ inode' = Collect(w, d, handle)
                  /\ apc' = [apc EXCEPT ![p] = "done"]
                  /\ log' = Append(log, item[p])
    /\ UNCHANGED <<item, adata, handle, calls, before>>
    /\ UNCHANGED notApp

\* Line 27: tmp_path.replace(path); FileNotFoundError when the temporary
\* file is no longer there.
Rename(p) ==
    /\ apc[p] = "rename"
    /\ LET tmp == TmpPath(TargetPath)
       IN IF ~Exists(tmp)
          THEN /\ apc' = [apc EXCEPT ![p] = "raised"]
               /\ UNCHANGED <<dir, inode, log>>
          ELSE LET d == Replace(dir, tmp, TargetPath)
               IN /\ dir' = d
                  /\ inode' = Collect(inode, d, handle)
                  /\ apc' = [apc EXCEPT ![p] = "done"]
                  /\ log' = Append(log, item[p])
    /\ UNCHANGED <<item, adata, handle, calls, before>>
    /\ UNCHANGED notApp

\* The process dies between two steps of the call. If it dies while the
\* temporary file is open, any prefix of the text may have reached the file.
Crash(p) ==
    /\ Running(p)
    /\ apc' = [apc EXCEPT ![p] = "crashed"]
    /\ IF apc[p] = "dump"
       THEN \E k \in 0..Len(JsonDump(adata[p])) :
               LET h == [handle EXCEPT ![p] = NoInode]
                   w == [inode EXCEPT ![handle[p]] =
                            Overlay(@, SubSeq(JsonDump(adata[p]), 1, k))]
               IN /\ handle' = h
                  /\ inode' = Collect(w, dir, h)
       ELSE UNCHANGED <<inode, handle>>
    /\ UNCHANGED <<dir, item, adata, calls, before, log>>
    /\ UNCHANGED notApp

\* One process calls again and again; each call ends (returns, raises or
\* dies) before the next begins.
SeqCall == \E x \in Items : Call(1, x)
SeqRead == ReadList(1)
SeqOpen == OpenTmp(1)
SeqDump == DumpClose(1)
SeqRename == Rename(1)
SeqCrash == Crash(1)

AppSeqNext ==
    \/ SeqCall
    \/ SeqRead
    \/ SeqOpen
    \/ SeqDump
    \/ SeqRename
    \/ SeqCrash

\* Each process makes one call; their steps interleave freely.
ConcCall == \E p \in Procs, x \in Items : apc[p] = "idle" /\ Call(p, x)
ConcRead == \E p \in Procs : ReadList(p)
ConcOpen == \E p \in Procs : OpenTmp(p)
ConcDump == \E p \in Procs : DumpClose(p)
ConcRename == \E p \in Procs : Rename(p)

AppConcNext ==
    \/ ConcCall
    \/ ConcRead
    \/ ConcOpen
    \/ ConcDump
    \/ ConcRename

(***************************************************************************)
(* cache_plot.py, cache_plot_bar.py, timer.py: the aggregation pipeline    *)
(***************************************************************************)

\* Largest number of records in one input file.
MaxRecords == 3

\* ---- cells of a table: NaN, an integer <<v>>, or a quotient <<n, d>>
\* (d > 0, lowest terms; <<1, 0>> is inf).

NaN == <<>>
Num(v) == <<v>>
Inf == <<1, 0>>

Abs(x) == IF x < 0 THEN 0 - x ELSE x

RECURSIVE Gcd(_, _)
Gcd(a, b) == IF b = 0 THEN a ELSE Gcd(b, a % b)

\* The quotient n / d, d > 0, in lowest terms.
Quot(n, d) == LET g == Gcd(Abs(n), d) IN <<n \div g, d \div g>>

\* Series / Series on integer cells: NaN stays NaN, x / 0 is inf, 0 / 0 is NaN.
TrueDiv(a, b) ==
    IF a = NaN \/ b = NaN THEN NaN
    ELSE IF b[1] = 0 THEN (IF a[1] = 0 THEN NaN ELSE Inf)
    ELSE Quot(a[1], b[1])

\* Series - Series on integer cells.
Minus(a, b) == IF a = NaN \/ b = NaN THEN NaN ELSE Num(a[1] - b[1])

\* ---- tables: [err, cols, rows]; err stands for a raised KeyError.

KeyError == [err |-> TRUE, cols |-> {}, rows |-> <<>>]

\* pd.DataFrame(data): one column per key that occurs in some record, NaN
\* where a record lacks the key.
DataFrame(list) ==
    LET cols == UNION { DOMAIN list[i] : i \in 1..Len(list) }
    IN [err |-> FALSE,
        cols |-> cols,
        rows |-> [i \in 1..Len(list) |->
                    [c \in cols |-> IF c \in DOMAIN list[i] THEN Num(list[i][c]) ELSE NaN]]]

\* DataFrame.empty
Empty(t) == Len(t.rows) = 0 \/ t.cols = {}

RECURSIVE Ascending(_)
\* The numbers of a finite set in ascending order.
Ascending(S) ==
    IF S = {} THEN <<>>
    ELSE LET m == CHOOSE x \in S : \A y \in S : x <= y
         IN <<m>> \o Ascending(S \ {m})

\* The rows at the given positions, in table order.
Take(t, idx) ==
    LET order == Ascending(idx)
    IN [t EXCEPT !.rows = [k \in 1..Len(order) |-> t.rows[order[k]]]]

SameOn(t, subset, i, j) == \A c \in subset \cap t.cols : t.rows[i][c] = t.rows[j][c]

\* Faulty variant: keep="first".
drop_duplicates_first(t, subset) ==
    IF Empty(t) THEN t
    ELSE IF ~(subset \subseteq t.cols) THEN KeyError
    ELSE Take(t, { i \in 1..Len(t.rows) :
                     ~\E j \in 1..(i - 1) : SameOn(t, subset, i, j) })

\* Faulty variant: columns of the subset that the table lacks are ignored.
drop_duplicates_unchecked(t, subset) ==
    IF Empty(t) THEN t
    ELSE Take(t, { i \in 1..Len(t.rows) :
                     ~\E j \in (i + 1)..Len(t.rows) : SameOn(t, subset, i, j) })

\* df.drop_duplicates(subset=..., keep="last"): an empty table is returned as
\* it is; a subset column the table lacks is a KeyError; NaN equals NaN.
drop_duplicates(t, subset) ==
    IF Empty(t) THEN t
    ELSE IF ~(subset \subseteq t.cols) THEN KeyError
    ELSE Take(t, { i \in 1..Len(t.rows) :
                     ~\E j \in (i + 1)..Len(t.rows) : SameOn(t, subset, i, j) })

\* The group key of a row: the values of the `by` columns, in that order.
KeyOf(row, by) == [k \in 1..Len(by) |-> row[by[k]][1]]

HasKey(row, by) == \A k \in 1..Len(by) : row[by[k]] # NaN

RECURSIVE LexLess(_, _)
LexLess(a, b) ==
    /\ a # <<>>
    /\ \/ Head(a) < Head(b)
       \/ Head(a) = Head(b) /\ LexLess(Tail(a), Tail(b))

RECURSIVE SortedKeys(_)
\* groupby(sort=True): the group keys in ascending lexicographic order.
SortedKeys(S) ==
    IF S = {} THEN <<>>
    ELSE LET m == CHOOSE x \in S : \A y \in S \ {x} : LexLess(x, y)
         IN <<m>> \o SortedKeys(S \ {m})

RECURSIVE SumCells(_)
\* Series.sum(): NaN cells are skipped; the sum of nothing is 0.
SumCells(cells) ==
    IF cells = <<>> THEN 0
    ELSE (IF Head(cells) = NaN THEN 0 ELSE Head(cells)[1]) + SumCells(Tail(cells))

RECURSIVE CountCells(_)
CountCells(cells) ==
    IF cells = <<>> THEN 0
    ELSE (IF Head(cells) = NaN THEN 0 ELSE 1) + CountCells(Tail(cells))

\* Series.mean(): NaN cells are skipped; the mean of nothing is NaN.
MeanCells(cells) ==
    IF CountCells(cells) = 0 THEN NaN ELSE Quot(SumCells(cells), CountCells(cells))

\* The cells of one column in the rows of one group, in table order.
GroupCells(t, by, key, col) ==
    LET members == Ascending({ i \in 1..Len(t.rows) :
                                 HasKey(t.rows[i], by) /\ KeyOf(t.rows[i], by) = key })
    IN [k \in 1..Len(members) |-> t.rows[members[k]][col]]

Range(f) == { f[x] : x \in DOMAIN f }

\* df.groupby(by).agg(name=(column, how), ...) with the keys as columns
\* (as_index=False or reset_index()): rows with a NaN key are left out
\* (dropna=True), one row per key, keys ascending. `named` maps each output
\* name to its source column. KeyError when a column is missing.
GroupAgg(t, by, named, how) ==
    IF t.err THEN t
    ELSE IF ~((Range(by) \cup Range(named)) \subseteq t.cols) THEN KeyError
    ELSE LET keys == SortedKeys({ KeyOf(t.rows[i], by) :
                                    i \in { j \in 1..Len(t.rows) : HasKey(t.rows[j], by) } })
             cols == Range(by) \cup DOMAIN named
         IN [err |-> FALSE,
             cols |-> cols,
             rows |-> [g \in 1..Len(keys) |->
                         [c \in cols |->
                            IF c \in Range(by)
                            THEN Num(keys[g][CHOOSE k \in 1..Len(by) : by[k] = c])
                            ELSE LET cells == GroupCells(t, by, keys[g], named[c])
                                 IN IF how = "sum" THEN Num(SumCells(cells))
                                                  ELSE MeanCells(cells)]]]

Injective(p) == \A i, j \in DOMAIN p : p[i] = p[j] => i = j

\* Faulty variant: the rows stay in groupby order.
sort_values_none(t, col) == {t}

\* .sort_values(col): the rows in ascending order of the column; the default
\* sort is not stable, so rows with equal values may come in any order.
sort_values(t, col) ==
    LET n == Len(t.rows)
    IN { [t EXCEPT !.rows = [k \in 1..n |-> t.rows[p[k]]]] :
           p \in { q \in [1..n -> 1..n] :
                     /\ Injective(q)
                     /\ \A k \in 1..(n - 1) :
                           t.rows[q[k]][col][1] <= t.rows[q[k + 1]][col][1] } }

\* Series.replace({0: pd.NA})
ReplaceZero(c) == IF c = Num(0) THEN NaN ELSE c

\* Series.fillna(0)
FillNa(c) == IF c = NaN THEN Quot(0, 1) ELSE c

\* Faulty variant: plain division, without replace and fillna.
HitRateNoFill(h, total) == TrueDiv(h, total)

\* grouped["hit"] / grouped["total_acc"].replace({0: pd.NA}), then .fillna(0)
HitRate(h, total) == FillNa(TrueDiv(h, ReplaceZero(total)))

\* The elementwise operations the scripts apply to two columns.
Elementwise(how, x, y) ==
    CASE how = "truediv" -> TrueDiv(x, y)
      [] how = "minus" -> Minus(x, y)
      [] how = "hit_rate" -> HitRate(x, y)

\* df[name] = f(df[a], df[b]) for an elementwise f; KeyError when the table
\* lacks a or b.
WithColumn(t, name, a, b, how) ==
    IF t.err THEN t
    ELSE IF ~({a, b} \subseteq t.cols) THEN KeyError
    ELSE [err |-> FALSE,
          cols |-> t.cols \cup {name},
          rows |-> [i \in 1..Len(t.rows) |->
                      [c \in t.cols \cup {name} |->
                         IF c = name THEN Elementwise(how, t.rows[i][a], t.rows[i][b])
                         ELSE t.rows[i][c]]]]

\* ---- the records of the input files

DedupKey == {"JAC_NODE_NUM", "JAC_EDGE_NUM", "JAC_TWEET_NUM", "jac_prefetch", "cache_size"}

CacheGroupBy == <<"cache_size", "jac_prefetch", "JAC_EDGE_NUM">>

CacheSums == [hit |-> "hit", total_acc |-> "total_acc"]

\* (hit, total_acc) of one benchmark run.
Counters == { <<5, 10>>, <<7, 10>>, <<0, 0>> }

CompleteCacheRecords ==
    { [JAC_NODE_NUM |-> n, JAC_EDGE_NUM |-> e, JAC_TWEET_NUM |-> 5, jac_prefetch |-> 0,
       cache_size |-> s, hit |-> c[1], total_acc |-> c[2]] :
         n \in {10}, e \in {100, 200}, s \in {10, 64}, c \in Counters }
    \cup
    { [JAC_NODE_NUM |-> 20, JAC_EDGE_NUM |-> 100, JAC_TWEET_NUM |-> 5, jac_prefetch |-> 0,
       cache_size |-> 10, hit |-> c[1], total_acc |-> c[2]] : c \in Counters }

\* A record without one of its fields.
Without(r, f) == [x \in DOMAIN r \ {f} |-> r[x]]

PartialCacheRecords ==
    LET r == [JAC_NODE_NUM |-> 10, JAC_EDGE_NUM |-> 100, JAC_TWEET_NUM |-> 5,
              jac_prefetch |-> 0, cache_size |-> 10, hit |-> 5, total_acc |-> 10]
    IN { Without(r, f) : f \in {"hit", "cache_size", "JAC_NODE_NUM"} }

CacheRecords == CompleteCacheRecords \cup PartialCacheRecords

TimerGroupBy == <<"JAC_EDGE_NUM">>

TimerMeans ==
    [avg_ttg_time |-> "ttg_time", avg_traversal_time |-> "traversal_time",
     avg_ttg_visited |-> "ttg_visited_num", avg_traversal_visited |-> "traversal_visited_num"]

CompleteTimerRecords ==
    [JAC_EDGE_NUM : {200, 100}, ttg_start_time : {1}, ttg_end_time : {3, 4},
     traversal_start_time : {4}, traversal_end_time : {6, 9},
     ttg_visited_num : {2}, traversal_visited_num : {5}]

PartialTimerRecords ==
    LET r == [JAC_EDGE_NUM |-> 100, ttg_start_time |-> 1, ttg_end_time |-> 3,
              traversal_start_time |-> 4, traversal_end_time |-> 6,
              ttg_visited_num |-> 2, traversal_visited_num |-> 5]
    IN { Without(r, f) : f \in {"ttg_end_time", "JAC_EDGE_NUM", "ttg_visited_num"} }

TimerRecords == CompleteTimerRecords \cup PartialTimerRecords

\* Every list of at most MaxRecords records.
Lists(S) == UNION { [1..n -> S] : n \in 0..MaxRecords }

NoTable == [err |-> FALSE, cols |-> {}, rows |-> <<>>]

AggStart ==
    /\ \/ script = "cache_plot" /\ records \in Lists(CacheRecords)
       \/ script = "timer" /\ records \in Lists(TimerRecords)
    /\ df = NoTable
    /\ grouped = NoTable
    /\ gpc = "start"

\* load_cache_stats: the table of the records, without the earlier duplicates
\* of a configuration, with the hit_rate column.
load_cache_stats ==
    /\ script = "cache_plot"
    /\ gpc = "start"
    /\ LET t == WithColumn(drop_duplicates(DataFrame(records), DedupKey),
                           "hit_rate", "hit", "total_acc", "truediv")
       IN IF t.err
          THEN gpc' = "raised" /\ df' = df
          ELSE gpc' = "loaded" /\ df' = t
    /\ UNCHANGED <<script, records, grouped>>
    /\ UNCHANGED notAgg

\* aggregate_hit_rates: sums per (cache_size, jac_prefetch, JAC_EDGE_NUM),
\* sorted by JAC_EDGE_NUM, with the hit rate of the sums.
aggregate_hit_rates ==
    /\ script = "cache_plot"
    /\ gpc = "loaded"
    /\ LET g == GroupAgg(df, CacheGroupBy, CacheSums, "sum")
       IN IF g.err
          THEN gpc' = "raised" /\ grouped' = grouped
          ELSE /\ gpc' = "done"
               /\ \E s \in sort_values(g, "JAC_EDGE_NUM") :
                     grouped' = WithColumn(s, "hit_rate", "hit", "total_acc", "hit_rate")
    /\ UNCHANGED <<script, records, df>>
    /\ UNCHANGED notAgg

\* load_timer_json: the table of the records with the three durations.
load_timer_json ==
    /\ script = "timer"
    /\ gpc = "start"
    /\ LET t1 == WithColumn(DataFrame(records), "ttg_time",
                            "ttg_end_time", "ttg_start_time", "minus")
           t2 == WithColumn(t1, "traversal_time",
                            "traversal_end_time", "traversal_start_time", "minus")
           t3 == WithColumn(t2, "total_time",
                            "traversal_end_time", "ttg_start_time", "minus")
       IN IF t3.err
          THEN gpc' = "raised" /\ df' = df
          ELSE gpc' = "loaded" /\ df' = t3
    /\ UNCHANGED <<script, records, grouped>>
    /\ UNCHANGED notAgg

\* compute_avg_times: means per JAC_EDGE_NUM, sorted by JAC_EDGE_NUM.
compute_avg_times ==
    /\ script = "timer"
    /\ gpc = "loaded"
    /\ LET g == GroupAgg(df, TimerGroupBy, TimerMeans, "mean")
       IN IF g.err
          THEN gpc' = "raised" /\ grouped' = grouped
          ELSE /\ gpc' = "done"
               /\ grouped' \in sort_values(g, "JAC_EDGE_NUM")
    /\ UNCHANGED <<script, records, df>>
    /\ UNCHANGED notAgg

AggNext ==
    \/ load_cache_stats
    \/ aggregate_hit_rates
    \/ load_timer_json
    \/ compute_avg_times

(***************************************************************************)
(* Specifications: one per script                                          *)
(***************************************************************************)

TTGIdle ==
    /\ data = <<>>
    /\ rootIdx = 1
    /\ G = EmptyGraph
    /\ graphs = <<>>
    /\ stack = <<>>
    /\ pc = "idle"
    /\ returned = <<>>

AppIdle ==
    /\ dir = [q \in Paths |-> NoInode]
    /\ inode = [i \in InodeIds |-> <<>>]
    /\ apc = [p \in Procs |-> "idle"]
    /\ item = [p \in Procs |-> 0]
    /\ adata = [p \in Procs |-> <<>>]
    /\ handle = [p \in Procs |-> NoInode]
    /\ calls = 0
    /\ before = [p \in Procs |-> <<>>]
    /\ log = <<>>

AggIdle ==
    /\ script = "none"
    /\ records = <<>>
    /\ df = NoTable
    /\ grouped = NoTable
    /\ gpc = "idle"

TTGInit == TTGStart /\ AppIdle /\ AggIdle

SpecTTG == TTGInit /\ [][TTGNext]_vars

AppInit == AppStart /\ TTGIdle /\ AggIdle

AggInit == AggStart /\ TTGIdle /\ AppIdle

SpecAgg == AggInit /\ [][AggNext]_vars

SpecAppend == AppInit /\ [][AppSeqNext]_vars

SpecConcurrent == AppInit /\ [][AppConcNext]_vars

(***************************************************************************)
(* Claims about ttg.py                                                     *)
(***************************************************************************)

RECURSIVE SumSeq(_)
SumSeq(s) == IF s = <<>> THEN 0 ELSE Head(s) + SumSeq(Tail(s))

RECURSIVE TreeIds(_)
\* The distinct ids occurring in a tree all of whose nodes carry an id.
TreeIds(t) ==
    {t.node.id} \cup UNION { TreeIds(Children(t)[i]) : i \in 1..Len(Children(t)) }

RECURSIVE LinkCount(_, _, _)
\* The number of parent-child links of the tree from id u to id v.
LinkCount(t, u, v) ==
    SumSeq([i \in 1..Len(Children(t)) |->
              (IF t.node.id = u /\ Children(t)[i].node.id = v THEN 1 ELSE 0)
              + LinkCount(Children(t)[i], u, v)])

RECURSIVE AllHaveIds(_)
AllHaveIds(t) ==
    /\ HasId(t)
    /\ \A i \in 1..Len(Children(t)) : AllHaveIds(Children(t)[i])

RECURSIVE TreeSize(_)
TreeSize(t) == 1 + SumSeq([i \in 1..Len(Children(t)) |-> TreeSize(Children(t)[i])])

\* The edges a tree asks for: for every ordered pair, keys 0 .. links-1.
ExpectedEdges(t) ==
    { e \in Ids \X Ids \X (0..MaxNodes) : e[3] < LinkCount(t, e[1], e[2]) }

ExactGraph(g, t) ==
    /\ g.nodes = TreeIds(t)
    /\ g.edges = ExpectedEdges(t)
    /\ TreeSize(t) = 1 => (Cardinality(g.nodes) = 1 /\ g.edges = {})

\* C1: the graph built for a root has exactly one vertex per distinct id of
\* the root's tree and exactly one edge parent->child per parent-child link,
\* parallel links giving distinct parallel edges; a single-node tree gives
\* one vertex and no edge.
C1_GraphMatchesTree ==
    /\ \A i \in 1..Len(graphs) : ExactGraph(graphs[i], data[i])
    /\ \A i \in 1..Len(returned) : ExactGraph(returned[i], data[i])

\* A returned graph in which a child id repeated under the parent with id 0
\* gave two parallel edges, next to a graph of a single-node tree.
C1_Witness ==
    /\ pc = "returned"
    /\ \E i \in 1..Len(returned) :
          {<<0, 1, 0>>, <<0, 1, 1>>} \subseteq returned[i].edges
    /\ \E i \in 1..Len(returned) :
          TreeSize(data[i]) = 1 /\ returned[i].edges = {}

\* C2: a list of k roots gives k graphs, the i-th holding nothing but what
\* the i-th root's own tree contains.
C2_OneGraphPerRoot ==
    pc = "returned" =>
        /\ Len(returned) = Len(data)
        /\ \A i \in 1..Len(returned) :
              /\ returned[i].nodes \subseteq TreeIds(data[i])
              /\ \A e \in returned[i].edges :
                    LinkCount(data[i], e[1], e[2]) > 0

\* Two roots with different ids were converted, the second one a tree with a
\* link, and the two graphs share no vertex.
C2_Witness ==
    /\ pc = "returned"
    /\ Len(returned) = 2
    /\ returned[1].nodes # {}
    /\ returned[2].edges # {}
    /\ returned[1].nodes \cap returned[2].nodes = {}

\* C6: a node lacking an id makes the call fail: the error leaves the call,
\* which returns nothing (no graph of the tree holding the node, nor any
\* other), and a call that returns has met no such node.
C6_MissingIdFails ==
    /\ pc = "raised" =>
          /\ returned = <<>>
          /\ rootIdx \in 1..Len(data)
          /\ ~AllHaveIds(data[rootIdx])
          /\ Len(graphs) = rootIdx - 1
    /\ pc = "returned" => \A i \in 1..Len(data) : AllHaveIds(data[i])

\* The call failed inside the second tree after part of that tree's graph
\* had been built.
C6_Witness ==
    /\ pc = "raised"
    /\ Len(graphs) = 1
    /\ G.nodes # {}
    /\ returned = <<>>

(***************************************************************************)
(* Claims about littlex1/util.py                                           *)
(***************************************************************************)

\* The list a call works from, given what the target held: [] when there was
\* no file or the text did not parse.
ListOf(snap) ==
    IF snap = Absent \/ JsonLoad(snap).kind # "list" THEN <<>> ELSE JsonLoad(snap).val

\* C5: calls made one after the other, starting with no list in the file,
\* leave a file that parses to the items of the calls that ran to their end,
\* in call order; and a call that ran to its end on a file holding list L
\* leaves the file holding L followed by its item.
C5_AppendRoundTrip ==
    /\ log # <<>> =>
          /\ Exists(TargetPath)
          /\ JsonLoad(Content(TargetPath)) = JsonList(log)
    /\ log = <<>> => Snapshot \in InitialTexts \cup {Absent}
    /\ \A p \in Procs :
          apc[p] = "done" =>
             JsonLoad(Content(TargetPath)) = JsonList(Append(ListOf(before[p]), item[p]))

\* Three calls ran to their end from a path with no file; the file holds
\* their three items in call order, which is not their numeric order.
C5_Witness ==
    /\ apc[1] = "done"
    /\ log = <<12, -3, 7>>
    /\ JsonLoad(Content(TargetPath)).val = <<12, -3, 7>>

\* C9: at every step of a call, and after a crash at any step, the target
\* holds what it held before the call or the complete text of that list with
\* the call's item appended; partial text only ever reaches the .tmp file.
C9_TargetNeverPartial ==
    \A p \in Procs :
        apc[p] # "idle" =>
           \/ Snapshot = before[p]
           \/ Snapshot = JsonDump(Append(ListOf(before[p]), item[p]))

\* A call died while writing: the .tmp file holds text that does not parse,
\* and the target still holds the complete list of the earlier calls.
C9_Witness ==
    /\ apc[1] = "crashed"
    /\ log # <<>>
    /\ Exists(TmpPath(TargetPath))
    /\ JsonLoad(Content(TmpPath(TargetPath))).kind = "error"
    /\ Content(TmpPath(TargetPath)) # <<>>
    /\ JsonLoad(Content(TargetPath)) = JsonList(log)

\* The list a call read: its local data without the item it appended.
ReadBy(p) == SubSeq(adata[p], 1, Len(adata[p]) - 1)

BothDoneSameRead(p, q) ==
    /\ p # q
    /\ apc[p] = "done"
    /\ apc[q] = "done"
    /\ ReadBy(p) = ReadBy(q)

\* C10: nothing orders the steps of two calls on the same path: when both
\* ran to their end after reading the same list (each read before the other
\* renamed), the target holds that list plus the item of one call only.
C10_NoWriterProtection ==
    \A p, q \in Procs :
        BothDoneSameRead(p, q) =>
           /\ Exists(TargetPath)
           /\ JsonLoad(Content(TargetPath)).kind = "list"
           /\ JsonLoad(Content(TargetPath)).val \in {adata[p], adata[q]}

\* The lost update: both calls ended, the target holds the item of one and
\* lacks the item of the other.
C10_Witness ==
    \E p, q \in Procs :
        /\ BothDoneSameRead(p, q)
        /\ item[p] # item[q]
        /\ LET l == JsonLoad(Content(TargetPath)).val
           IN /\ \E i \in 1..Len(l) : l[i] = item[q]
              /\ \A i \in 1..Len(l) : l[i] # item[p]

(***************************************************************************)
(* Claims about the aggregation pipeline                                   *)
(***************************************************************************)

\* The cell a record gives for a field: NaN when the record lacks it.
CellOf(r, f) == IF f \in DOMAIN r THEN Num(r[f]) ELSE NaN

\* The value a cell adds to a sum.
Counted(c) == IF c = NaN THEN 0 ELSE c[1]

InGroupOf(r, row, by) == \A c \in Range(by) : r[c] = row[c]

RECURSIVE ColumnTotal(_, _, _, _)
\* The sum of a column over the first n rows of the table that lie in the
\* group of `row`.
ColumnTotal(t, row, col, n) ==
    IF n = 0 THEN 0
    ELSE ColumnTotal(t, row, col, n - 1)
         + (IF InGroupOf(t.rows[n], row, CacheGroupBy) THEN Counted(t.rows[n][col]) ELSE 0)

CacheDone == script = "cache_plot" /\ gpc = "done"

\* C3: every row of aggregate_hit_rates has hit_rate = (sum of hit over the
\* group) / (sum of total_acc over the group) when that sum is positive, and
\* hit_rate = 0 when it is 0.
C3_HitRateOfSums ==
    CacheDone =>
        \A k \in 1..Len(grouped.rows) :
            LET row == grouped.rows[k]
                H   == ColumnTotal(df, row, "hit", Len(df.rows))
                T   == ColumnTotal(df, row, "total_acc", Len(df.rows))
            IN IF T > 0
               THEN /\ Len(row.hit_rate) = 2
                    /\ row.hit_rate[2] > 0
                    /\ row.hit_rate[1] * T = H * row.hit_rate[2]
               ELSE row.hit_rate = <<0, 1>>

\* One group had no access at all and got rate 0; another summed two
\* records to 12 / 20.
C3_Witness ==
    /\ CacheDone
    /\ \E k \in 1..Len(grouped.rows) :
          grouped.rows[k].total_acc = Num(0) /\ grouped.rows[k].hit_rate = <<0, 1>>
    /\ \E k \in 1..Len(grouped.rows) :
          grouped.rows[k].total_acc = Num(20) /\ grouped.rows[k].hit_rate = <<3, 5>>

\* The input record at position i is the last one with its configuration.
IsLastOfKey(i) ==
    ~\E j \in (i + 1)..Len(records) :
        \A f \in DedupKey : CellOf(records[j], f) = CellOf(records[i], f)

RecordInGroup(i, row) ==
    \A c \in Range(CacheGroupBy) : CellOf(records[i], c) = row[c]

RECURSIVE LastTotal(_, _, _)
\* The sum of a counter over the records up to position n that are the last
\* of their configuration and lie in the group of `row`.
LastTotal(row, f, n) ==
    IF n = 0 THEN 0
    ELSE LastTotal(row, f, n - 1)
         + (IF IsLastOfKey(n) /\ RecordInGroup(n, row)
            THEN Counted(CellOf(records[n], f)) ELSE 0)

\* C4: of the input records that share a full configuration key only the
\* last adds its hit and total_acc to the aggregate.
C4_LastDuplicateCounts ==
    CacheDone =>
        /\ \A k \in 1..Len(grouped.rows) :
              /\ grouped.rows[k].hit = Num(LastTotal(grouped.rows[k], "hit", Len(records)))
              /\ grouped.rows[k].total_acc
                    = Num(LastTotal(grouped.rows[k], "total_acc", Len(records)))
        /\ \A i \in 1..Len(records) :
              (IsLastOfKey(i) /\ \A c \in Range(CacheGroupBy) : c \in DOMAIN records[i])
                 => \E k \in 1..Len(grouped.rows) : RecordInGroup(i, grouped.rows[k])

\* The input [hit 5, hit 7] of one configuration, followed by a record of
\* another configuration of the same group: the row sums 7 and that record.
C4_Witness ==
    /\ CacheDone
    /\ Len(records) = 3
    /\ \A i \in 1..3 : records[i] \in CompleteCacheRecords
    /\ \A f \in DedupKey : records[1][f] = records[2][f]
    /\ records[1].hit = 5 /\ records[2].hit = 7
    /\ records[3].JAC_NODE_NUM # records[1].JAC_NODE_NUM
    /\ records[3].hit = 5
    /\ Len(grouped.rows) = 1
    /\ grouped.rows[1].hit = Num(12)
    /\ grouped.rows[1].total_acc = Num(20)

\* The fields a pipeline reads by name.
Required ==
    IF script = "cache_plot" THEN DedupKey \cup {"hit", "total_acc"}
    ELSE {"JAC_EDGE_NUM", "ttg_start_time", "ttg_end_time", "traversal_start_time",
          "traversal_end_time", "ttg_visited_num", "traversal_visited_num"}

\* C7 as stated: the pipeline fails whenever some record lacks a required
\* field, also when other records carry it; so a run that ends without an
\* error had every required field in every record.
C7_AnyRecordMissingFails ==
    gpc = "done" => \A i \in 1..Len(records) : Required \subseteq DOMAIN records[i]

\* C7 amended: the pipeline fails exactly when some required field is
\* carried by no record at all (the table then has no such column; the empty
\* input is such a case).
C7_MissingColumnFails ==
    /\ gpc = "done" =>
          \A f \in Required : \E i \in 1..Len(records) : f \in DOMAIN records[i]
    /\ gpc = "raised" =>
          \E f \in Required : \A i \in 1..Len(records) : f \notin DOMAIN records[i]

\* A cache run ended without an error although one record lacks "hit", and
\* the group of that record has the counters of the other record only.
C7_Witness ==
    /\ CacheDone
    /\ Len(records) = 2
    /\ "hit" \notin DOMAIN records[1]
    /\ "hit" \in DOMAIN records[2]
    /\ Len(grouped.rows) = 1
    /\ grouped.rows[1].hit = Num(records[2].hit)

GroupBy == IF script = "cache_plot" THEN CacheGroupBy ELSE TimerGroupBy

KeyCells(row) == [k \in 1..Len(GroupBy) |-> row[GroupBy[k]]]

\* C8: the aggregated table has one row per distinct grouping key of its
\* input (the keys of the rows that carry every key column), no key twice,
\* rows in ascending order of JAC_EDGE_NUM.
C8_OneRowPerKeySorted ==
    gpc = "done" =>
        /\ \A a, b \in 1..Len(grouped.rows) :
              a # b => KeyCells(grouped.rows[a]) # KeyCells(grouped.rows[b])
        /\ { KeyCells(grouped.rows[a]) : a \in 1..Len(grouped.rows) }
              = { KeyCells(df.rows[i]) :
                    i \in { j \in 1..Len(df.rows) :
                              \A k \in 1..Len(GroupBy) : df.rows[j][GroupBy[k]] # NaN } }
        /\ \A a \in 1..(Len(grouped.rows) - 1) :
              grouped.rows[a].JAC_EDGE_NUM[1] <= grouped.rows[a + 1].JAC_EDGE_NUM[1]

\* Three records, two of one group: two rows, and the row of cache size 64
\* stands before the row of cache size 10 because its edge count is smaller.
C8_Witness ==
    /\ CacheDone
    /\ Len(df.rows) = 3
    /\ Len(grouped.rows) = 2
    /\ grouped.rows[1].cache_size = Num(64) /\ grouped.rows[1].JAC_EDGE_NUM = Num(100)
    /\ grouped.rows[2].cache_size = Num(10) /\ grouped.rows[2].JAC_EDGE_NUM = Num(200)

====
